---- MODULE Spec2Model ----
(***************************************************************************)
(* Model of app/dashboard.py of greed-fear-dashboard: a Streamlit script   *)
(* that is re-run from top to bottom on every interaction.  One run is     *)
(* connect + CREATE TABLE IF NOT EXISTS, the sentiment form                *)
(* (analyze_and_store), load_data (with seeding), and the Greed & Fear     *)
(* index.                                                                  *)
(*                                                                         *)
(* Strings are sequences of one-character strings, so that lower(), strip()*)
(* and the `in` substring test are computed.  Scores are kept in tenths    *)
(* (0.9 is 9), percentages are exact fractions [n, d] in lowest terms.     *)
(***************************************************************************)
EXTENDS Integers, Sequences, FiniteSets, TLC

VARIABLES
    rows,           \* committed content of table sentiments, in rowid order
    nextId,         \* next AUTOINCREMENT id
    clock,          \* CURRENT_TIMESTAMP of the database engine
    table_exists,   \* the table sentiments exists in sentiment.db
    pc,             \* position of the script run
    text,           \* argument of the running analyze_and_store call
    result,         \* result of the running analyze_and_store call
    msg,            \* "success" once st.success was called in this run
    error,          \* the exception that ended this run, or "none"
    read_err,       \* the except branch of load_data was taken in this run
    data,           \* the DataFrame returned by load_data in this run
    greed_percent,  \* line 75
    fear_percent,   \* line 76
    submissions     \* number of rows inserted by analyze_and_store so far

vars == <<rows, nextId, clock, table_exists, pc, text, result, msg, error,
          read_err, data, greed_percent, fear_percent, submissions>>

----------------------------------------------------------------------------
(* Bounds *)

MaxRows == 4

MaxSubmits == 1

MaxClock == 1

MaxObs == 3

----------------------------------------------------------------------------
(* Strings *)

UpperCase == <<"A","B","C","D","E","F","G","H","I","J","K","L","M","N","O","P","Q","R","S","T","U","V","W","X","Y","Z">>

LowerCase == <<"a","b","c","d","e","f","g","h","i","j","k","l","m","n","o","p","q","r","s","t","u","v","w","x","y","z">>

Whitespace == {" ", "\t", "\n"}

\* str.lower() on one character
char_lower(c) ==
    IF \E i \in 1..Len(UpperCase) : UpperCase[i] = c
    THEN LowerCase[CHOOSE i \in 1..Len(UpperCase) : UpperCase[i] = c]
    ELSE c

\* str.lower()
str_lower(s) == [i \in 1..Len(s) |-> char_lower(s[i])]

\* `sub in s` for str
str_in(sub, s) ==
    \E i \in 0..(Len(s) - Len(sub)) : SubSeq(s, i + 1, i + Len(sub)) = sub

RECURSIVE str_lstrip(_)
str_lstrip(s) ==
    IF s # <<>> /\ Head(s) \in Whitespace THEN str_lstrip(Tail(s)) ELSE s

RECURSIVE str_rstrip(_)
str_rstrip(s) ==
    IF s # <<>> /\ s[Len(s)] \in Whitespace
    THEN str_rstrip(SubSeq(s, 1, Len(s) - 1))
    ELSE s

\* str.strip()
str_strip(s) == str_rstrip(str_lstrip(s))

positive == <<"p","o","s","i","t","i","v","e">>

negative == <<"n","e","g","a","t","i","v","e">>

neutral == <<"n","e","u","t","r","a","l">>

\* what the user may have typed into the text area (line 61): a text with
\* surrounding whitespace, and a blank one
Texts == { <<" ","u","p","\n">>, <<" ","\t">> }

\* labels the classifier may return
RawLabels == { <<"P","O","S","I","T","I","V","E">>,
               <<"N","E","G","A","T","I","V","E">>,
               <<"N","e","u","t","r","a","l">>,
               <<"n","o","t"," ","N","E","G","A","T","I","V","E",","," ","P","o","s","i","t","i","v","e">> }

\* confidences the classifier may return, in tenths
Confidences == {0, 6}

NoResult == [label |-> <<>>, score |-> -1]

ClassifierResults == [label : RawLabels, score : Confidences]

----------------------------------------------------------------------------
(* Store *)

\* the sample_data frame of load_data
sample_data == << [text |-> <<"M","a","r","k","e","t"," ","i","s"," ","b","o","o","m","i","n","g","!">>,
                   sentiment |-> positive, score |-> 9],
                  [text |-> <<"C","r","y","p","t","o"," ","c","r","a","s","h"," ","i","n","c","o","m","i","n","g">>,
                   sentiment |-> negative, score |-> -8],
                  [text |-> <<"I","'","m"," ","n","e","u","t","r","a","l"," ","a","b","o","u","t"," ","s","t","o","c","k","s"," ","t","o","d","a","y">>,
                   sentiment |-> neutral, score |-> 1] >>

\* INSERT INTO sentiments (text, sentiment, score): id and timestamp are
\* assigned by the table's AUTOINCREMENT and DEFAULT CURRENT_TIMESTAMP
insert_row(id, now, txt, sentiment, score) ==
    [id |-> id, text |-> txt, sentiment |-> sentiment, score |-> score,
     timestamp |-> now]

\* sample_data.to_sql("sentiments", conn, if_exists="append", index=False)
to_sql(table, first_id, now) ==
    table \o [i \in 1..Len(sample_data) |->
                insert_row(first_id + i - 1, now, sample_data[i].text,
                           sample_data[i].sentiment, sample_data[i].score)]

read_sql_unordered(table) == { table }

\* the results SELECT * FROM sentiments ORDER BY timestamp DESC may return:
\* every arrangement of the rows with non-increasing timestamps (the order
\* of rows with equal timestamps is left to the engine)
read_sql(table) ==
    IF table = <<>> THEN { <<>> }
    ELSE { [i \in 1..Len(table) |-> table[p[i]]] :
             p \in { q \in Permutations(1..Len(table)) :
                       \A i \in 1..(Len(table) - 1) :
                          table[q[i]].timestamp >= table[q[i + 1]].timestamp } }

----------------------------------------------------------------------------
(* Classifier adapter and form *)

signed_score_unsigned(label, confidence) ==
    IF str_in(positive, label) THEN confidence
    ELSE IF str_in(negative, label) THEN confidence
    ELSE 0

\* line 49
signed_score(label, confidence) ==
    IF str_in(positive, label) THEN confidence
    ELSE IF str_in(negative, label) THEN -confidence
    ELSE 0

\* what cursor.execute(INSERT) + conn.commit() may do
WriteOutcomes == {"ok", "execute_raises", "commit_raises"}

analyze_and_store_swallow(table, id, now, txt, res, write) ==
    LET label == str_lower(res.label)
        score == signed_score(label, res.score)
    IN  IF write = "ok"
        THEN [error |-> "none",
              rows |-> Append(table, insert_row(id, now, txt, label, score))]
        ELSE [error |-> "none", rows |-> table]

analyze_and_store_strip(table, id, now, txt, res, write) ==
    LET label == str_lower(res.label)
        score == signed_score(label, res.score)
    IN  IF write = "ok"
        THEN [error |-> "none",
              rows |-> Append(table, insert_row(id, now, str_strip(txt), label, score))]
        ELSE [error |-> "StoreWriteFailure", rows |-> table]

\* lines 48-52 of analyze_and_store(txt) on the table `table`, res being
\* sentiment_pipeline(txt)[0]; a failed execute or a failed commit leaves
\* the committed table as it was
analyze_and_store(table, id, now, txt, res, write) ==
    LET label == str_lower(res.label)
        score == signed_score(label, res.score)
    IN  IF write = "ok"
        THEN [error |-> "none",
              rows |-> Append(table, insert_row(id, now, txt, label, score))]
        ELSE [error |-> "StoreWriteFailure", rows |-> table]

\* load_data() on the table `table`: read1_ok, seed_ok and read2_ok say
\* whether the first read_sql, the to_sql and the second read_sql succeed.
\* `rows` is the table the call leaves; when error is "none" the call
\* returns a read of that table.
load_data(table, id, now, read1_ok, seed_ok, read2_ok) ==
    LET empty == (~read1_ok) \/ table = <<>>
        seeded == to_sql(table, id, now)
    IN  IF ~empty
        THEN [error |-> "none", rows |-> table, read_err |-> FALSE]
        ELSE IF ~seed_ok
        THEN [error |-> "StoreWriteFailure", rows |-> table,
              read_err |-> ~read1_ok]
        ELSE IF ~read2_ok
        THEN [error |-> "StoreReadFailure", rows |-> seeded,
              read_err |-> ~read1_ok]
        ELSE [error |-> "none", rows |-> seeded, read_err |-> ~read1_ok]

----------------------------------------------------------------------------
(* Aggregator *)

Abs(x) == IF x < 0 THEN -x ELSE x

RECURSIVE GCD(_, _)
GCD(a, b) == IF b = 0 THEN a ELSE GCD(b, a % b)

\* the fraction n/d (d # 0) in lowest terms, with a positive denominator
Frac(n, d) ==
    LET g == GCD(Abs(n), Abs(d))
        sgn == IF d < 0 THEN -1 ELSE 1
    IN  [n |-> sgn * (n \div g), d |-> sgn * (d \div g)]

\* a - b on fractions
FracSub(a, b) == Frac(a.n * b.d - b.n * a.d, a.d * b.d)

\* data[data['score'] > 0]['score'].sum() for sign = 1,
\* data[data['score'] < 0]['score'].sum() for sign = -1
RECURSIVE score_sum(_, _)
score_sum(d, sign) ==
    IF d = <<>> THEN 0
    ELSE (IF Head(d).score * sign > 0 THEN Head(d).score ELSE 0)
         + score_sum(Tail(d), sign)

compute_index_zero_default(d) ==
    LET greed_score == score_sum(d, 1)
        fear_score  == Abs(score_sum(d, -1))
        total_score == greed_score + fear_score
        greed == IF total_score # 0
                 THEN Frac(greed_score * 100, total_score)
                 ELSE Frac(0, 1)
    IN  [greed_percent |-> greed, fear_percent |-> FracSub(Frac(100, 1), greed)]

compute_index_greed_only(d) ==
    LET greed_score == score_sum(d, 1)
        total_score == greed_score
        greed == IF total_score # 0
                 THEN Frac(greed_score * 100, total_score)
                 ELSE Frac(50, 1)
    IN  [greed_percent |-> greed, fear_percent |-> FracSub(Frac(100, 1), greed)]

\* lines 71-76
compute_index(d) ==
    LET greed_score == score_sum(d, 1)
        fear_score  == Abs(score_sum(d, -1))
        total_score == greed_score + fear_score
        greed == IF total_score # 0
                 THEN Frac(greed_score * 100, total_score)
                 ELSE Frac(50, 1)
    IN  [greed_percent |-> greed, fear_percent |-> FracSub(Frac(100, 1), greed)]

NoPercent == [n |-> -1, d |-> 1]

----------------------------------------------------------------------------
(* One run of the script *)

Init ==
    /\ rows = <<>>
    /\ nextId = 1
    /\ clock = 0
    /\ table_exists = FALSE
    /\ pc = "idle"
    /\ text = <<>>
    /\ result = NoResult
    /\ msg = "none"
    /\ error = "none"
    /\ read_err = FALSE
    /\ data = <<>>
    /\ greed_percent = NoPercent
    /\ fear_percent = NoPercent
    /\ submissions = 0

\* lines 10-23, 44, 55-57: a rerun of the script up to the form; building
\* the pipeline may raise
Rerun ==
    /\ pc \in {"idle", "done", "aborted"}
    /\ table_exists' = TRUE
    /\ msg' = "none"
    /\ read_err' = FALSE
    /\ data' = <<>>
    /\ greed_percent' = NoPercent
    /\ fear_percent' = NoPercent
    /\ \/ pc' = "form" /\ error' = "none"
       \/ pc' = "aborted" /\ error' = "PipelineLoadError"
    /\ UNCHANGED <<rows, nextId, clock, text, result, submissions>>

sentiment_form_insert_first ==
    /\ pc = "form"
    /\ \E user_text \in Texts, submitted \in BOOLEAN :
          IF submitted /\ str_strip(user_text) # <<>>
          THEN \/ /\ submissions < MaxSubmits /\ Len(rows) < MaxRows
                  /\ pc' = "store"
                  /\ text' = user_text
                  /\ result' \in ClassifierResults
                  /\ error' = error
                  /\ UNCHANGED <<rows, nextId>>
               \/ /\ Len(rows) < MaxRows
                  /\ pc' = "aborted"
                  /\ error' = "ClassifierUnavailable"
                  /\ rows' = Append(rows, insert_row(nextId, clock, user_text, <<>>, 0))
                  /\ nextId' = nextId + 1
                  /\ UNCHANGED <<text, result>>
          ELSE /\ pc' = "load"
               /\ UNCHANGED <<text, result, error, rows, nextId>>
    /\ UNCHANGED <<clock, table_exists, msg, read_err, data, greed_percent,
                   fear_percent, submissions>>

\* lines 60-64 and 47: the form's widgets, and the call of the classifier
\* when the form was submitted with a text that is not blank
sentiment_form ==
    /\ pc = "form"
    /\ \E user_text \in Texts, submitted \in BOOLEAN :
          IF submitted /\ str_strip(user_text) # <<>>
          THEN \/ /\ submissions < MaxSubmits /\ Len(rows) < MaxRows
                  /\ pc' = "store"
                  /\ text' = user_text
                  /\ result' \in ClassifierResults
                  /\ error' = error
               \/ /\ pc' = "aborted"
                  /\ error' = "ClassifierUnavailable"
                  /\ UNCHANGED <<text, result>>
          ELSE /\ pc' = "load"
               /\ UNCHANGED <<text, result, error>>
    /\ UNCHANGED <<rows, nextId, clock, table_exists, msg, read_err, data,
                   greed_percent, fear_percent, submissions>>

\* lines 48-52 and 65
StoreObservation ==
    /\ pc = "store"
    /\ \E write \in WriteOutcomes :
          LET r == analyze_and_store(rows, nextId, clock, text, result, write)
          IN  /\ rows' = r.rows
              /\ error' = r.error
              /\ nextId' = nextId + (Len(r.rows) - Len(rows))
              /\ submissions' = submissions + (Len(r.rows) - Len(rows))
              /\ msg' = IF r.error = "none" THEN "success" ELSE msg
              /\ pc' = IF r.error = "none" THEN "load" ELSE "aborted"
    /\ text' = <<>>
    /\ result' = NoResult
    /\ UNCHANGED <<clock, table_exists, read_err, data, greed_percent,
                   fear_percent>>

\* line 68
LoadData ==
    /\ pc = "load"
    /\ \E read1_ok, seed_ok, read2_ok \in BOOLEAN :
          LET r == load_data(rows, nextId, clock, read1_ok, seed_ok, read2_ok)
          IN  /\ read1_ok \/ Len(rows) + Len(sample_data) <= MaxRows
              /\ rows' = r.rows
              /\ nextId' = nextId + (Len(r.rows) - Len(rows))
              /\ read_err' = r.read_err
              /\ error' = r.error
              /\ IF r.error = "none"
                 THEN pc' = "index" /\ data' \in read_sql(r.rows)
                 ELSE pc' = "aborted" /\ data' = <<>>
    /\ UNCHANGED <<clock, table_exists, text, result, msg, greed_percent,
                   fear_percent, submissions>>

\* lines 70-102
ComputeIndex ==
    /\ pc = "index"
    /\ greed_percent' = compute_index(data).greed_percent
    /\ fear_percent' = compute_index(data).fear_percent
    /\ pc' = "done"
    /\ UNCHANGED <<rows, nextId, clock, table_exists, text, result, msg, error,
                   read_err, data, submissions>>

\* the engine's clock advances
Tick ==
    /\ clock < MaxClock
    /\ clock' = clock + 1
    /\ UNCHANGED <<rows, nextId, table_exists, pc, text, result, msg, error,
                   read_err, data, greed_percent, fear_percent, submissions>>

Next ==
    Rerun \/ sentiment_form \/ StoreObservation \/ LoadData \/ ComputeIndex \/ Tick

Spec == Init /\ [][Next]_vars

----------------------------------------------------------------------------
(* The index as a function of the frame: lines 70-76 applied to every frame *)
(* of at most MaxObs scores between -1.0 and 1.0                            *)

ObsScores == -10..10

RECURSIVE Frames(_)
Frames(n) ==
    IF n = 0 THEN { <<>> }
    ELSE Frames(n - 1) \cup
         { Append(f, [score |-> x]) :
             f \in { g \in Frames(n - 1) : Len(g) = n - 1 }, x \in ObsScores }

InitIndex ==
    /\ rows = <<>>
    /\ nextId = 1
    /\ clock = 0
    /\ table_exists = TRUE
    /\ pc = "index"
    /\ text = <<>>
    /\ result = NoResult
    /\ msg = "none"
    /\ error = "none"
    /\ read_err = FALSE
    /\ data \in Frames(MaxObs)
    /\ greed_percent = NoPercent
    /\ fear_percent = NoPercent
    /\ submissions = 0

NextIndex == ComputeIndex

SpecIndex == InitIndex /\ [][NextIndex]_vars

----------------------------------------------------------------------------
(* Properties *)

IsPrefix(s, t) == Len(s) <= Len(t) /\ SubSeq(t, 1, Len(s)) = s

Last(s) == s[Len(s)]

\* the three example rows named by the specification, scores in tenths
SeedExamples ==
    << [text |-> <<"M","a","r","k","e","t"," ","i","s"," ","b","o","o","m","i","n","g","!">>,
        sentiment |-> <<"p","o","s","i","t","i","v","e">>, score |-> 9],
       [text |-> <<"C","r","y","p","t","o"," ","c","r","a","s","h"," ","i","n","c","o","m","i","n","g">>,
        sentiment |-> <<"n","e","g","a","t","i","v","e">>, score |-> -8],
       [text |-> <<"I","'","m"," ","n","e","u","t","r","a","l"," ","a","b","o","u","t"," ","s","t","o","c","k","s"," ","t","o","d","a","y">>,
        sentiment |-> <<"n","e","u","t","r","a","l">>, score |-> 1] >>

\* t is s followed by exactly the three example rows
SeedsAppended(s, t) ==
    /\ Len(t) = Len(s) + 3
    /\ IsPrefix(s, t)
    /\ \A i \in 1..3 :
          /\ t[Len(s) + i].text = SeedExamples[i].text
          /\ t[Len(s) + i].sentiment = SeedExamples[i].sentiment
          /\ t[Len(s) + i].score = SeedExamples[i].score

\* frame d holds exactly the rows of table t, timestamps non-increasing
AllByTimestampDesc(d, t) ==
    /\ Len(d) = Len(t)
    /\ \A i \in 1..Len(t) : \E j \in 1..Len(d) : d[j] = t[i]
    /\ \A j \in 1..(Len(d) - 1) : d[j].timestamp >= d[j + 1].timestamp

\* C1: the row stored by analyze_and_store has the lower-cased label as
\* sentiment and the score +c if that label contains "positive", else -c if
\* it contains "negative", else 0, c being the classifier's confidence.
C1_ScoreRule ==
    [][ (pc = "store" /\ pc' = "load") =>
          LET lbl == str_lower(result.label)
          IN  /\ Len(rows') = Len(rows) + 1
              /\ Last(rows').sentiment = lbl
              /\ Last(rows').score =
                   (IF str_in(<<"p","o","s","i","t","i","v","e">>, lbl)
                    THEN result.score
                    ELSE IF str_in(<<"n","e","g","a","t","i","v","e">>, lbl)
                    THEN 0 - result.score
                    ELSE 0) ]_vars

C1_Witness ==
    /\ pc = "load"
    /\ msg = "success"
    /\ Last(rows).sentiment = <<"n","e","g","a","t","i","v","e">>
    /\ Last(rows).score = -6

\* C2: every stored Observation has score > 0 iff its sentiment is
\* "positive", score < 0 iff it is "negative", and score = 0 iff it is
\* "neutral" or any other label.
C2_ScoreMatchesSentiment ==
    \A i \in 1..Len(rows) :
       /\ rows[i].score > 0 <=> rows[i].sentiment = <<"p","o","s","i","t","i","v","e">>
       /\ rows[i].score < 0 <=> rows[i].sentiment = <<"n","e","g","a","t","i","v","e">>
       /\ rows[i].score = 0 <=>
             rows[i].sentiment \notin { <<"p","o","s","i","t","i","v","e">>,
                                        <<"n","e","g","a","t","i","v","e">> }

\* C3: when the classifier raises during a form submission, the step inserts
\* no Observation and the success message is not shown; the run ends with
\* the error.
C3_ClassifierErrorInsertsNothing ==
    [][ (pc = "form" /\ error' = "ClassifierUnavailable") =>
          (rows' = rows /\ msg' # "success" /\ pc' = "aborted") ]_vars

C3_Witness ==
    /\ pc = "aborted"
    /\ error = "ClassifierUnavailable"
    /\ rows # <<>>

\* C4: load_data's seeding inserts nothing when the store holds at least one
\* Observation, and on an empty store inserts exactly the three example rows
\* (or nothing, when the seeding itself raises).
C4_SeedOnlyWhenEmpty ==
    [][ (pc = "load" /\ pc' # "load") =>
          IF rows # <<>>
          THEN rows' = rows
          ELSE SeedsAppended(rows, rows') \/ (rows' = rows /\ pc' = "aborted") ]_vars

\* C5 as written: load_data leaves the stored Observations unchanged and
\* returns all of them ordered by timestamp descending.
C5_LoadReadOnly ==
    [][ (pc = "load" /\ pc' # "load") =>
          /\ rows' = rows
          /\ pc' = "index" => AllByTimestampDesc(data', rows') ]_vars

\* C5 amended: load_data never removes or changes a stored Observation; it
\* inserts rows only when its first read yields no rows (the store is empty
\* or the read failed), and then exactly the three example rows; whenever it
\* returns, it returns all stored Observations ordered by timestamp
\* descending.
C5_LoadAppendsOnlySeeds ==
    [][ (pc = "load" /\ pc' # "load") =>
          /\ \/ rows' = rows
             \/ (rows = <<>> \/ read_err') /\ SeedsAppended(rows, rows')
          /\ pc' = "index" => AllByTimestampDesc(data', rows') ]_vars

C5_Witness ==
    /\ pc = "index"
    /\ Len(data) > 3
    /\ data[1].timestamp > Last(data).timestamp

\* C6: when reading the observations fails, no error propagates out of
\* load_data and the render goes on to the index.
C6_ReadFailureRecovered ==
    read_err => (error = "none" /\ pc \in {"index", "done"})

\* C7: the success message is shown only by a step that inserted and
\* committed the Observation of the submitted text; when the insert fails the
\* error ends the run and no success is shown.
C7_SuccessOnlyAfterCommit ==
    [][ /\ (msg' = "success" /\ msg # "success") =>
             /\ pc = "store"
             /\ Len(rows') = Len(rows) + 1
             /\ IsPrefix(rows, rows')
             /\ Last(rows').text = text
        /\ (pc = "store" /\ pc' # "store" /\ rows' = rows) =>
             /\ pc' = "aborted"
             /\ error' = "StoreWriteFailure"
             /\ msg' # "success" ]_vars

C7_Witness ==
    /\ pc = "aborted"
    /\ error = "StoreWriteFailure"
    /\ msg # "success"

\* C8: no step removes or changes a stored Observation (the table only grows
\* at its end), and a successful submission adds exactly one row, whose text
\* is the submitted string unmodified.
C8_AppendOnly ==
    [][ /\ IsPrefix(rows, rows')
        /\ \A i \in 1..Len(rows') : \A j \in 1..Len(rows') :
              rows'[i].id = rows'[j].id => i = j
        /\ (pc = "store" /\ msg' = "success") =>
              /\ Len(rows') = Len(rows) + 1
              /\ Last(rows').text = text ]_vars

C8_Witness ==
    /\ msg = "success"
    /\ Len(rows) > 3
    /\ Last(rows).text = <<" ","u","p","\n">>

\* C9: for an empty frame, and for any frame whose sum of positive scores plus
\* magnitude of the sum of negative scores is 0, the index is exactly 50 / 50.
C9_NeutralMidpoint ==
    (pc = "done" /\ score_sum(data, 1) + Abs(score_sum(data, -1)) = 0) =>
       /\ greed_percent = [n |-> 50, d |-> 1]
       /\ fear_percent = [n |-> 50, d |-> 1]

C9_Witness ==
    /\ pc = "done"
    /\ Len(data) > 1
    /\ \A i \in 1..Len(data) : data[i].score = 0
    /\ greed_percent = [n |-> 50, d |-> 1]

\* C10: for every non-empty frame greed_percent + fear_percent is exactly
\* 100, and greed_percent is greed / (greed + fear) * 100 where that sum is
\* not 0, greed being the sum of the scores > 0 and fear the absolute value of
\* the sum of the scores < 0.
C10_PercentsSumTo100 ==
    (pc = "done" /\ data # <<>>) =>
       LET greed == score_sum(data, 1)
           fear  == Abs(score_sum(data, -1))
       IN  /\ greed_percent.d > 0 /\ fear_percent.d > 0
           /\ greed_percent.n * fear_percent.d + fear_percent.n * greed_percent.d
                 = 100 * greed_percent.d * fear_percent.d
           /\ greed + fear # 0 =>
                 greed_percent.n * (greed + fear) = greed * 100 * greed_percent.d

C10_Witness ==
    /\ pc = "done"
    /\ Len(data) > 1
    /\ score_sum(data, 1) > 0
    /\ score_sum(data, -1) < 0
    /\ greed_percent.d > 1

====
